---------------------------- MODULE Spec2Model ----------------------------
(***************************************************************************)
(* A model of lasif/window_selection.py: the extrema finder, the distance  *)
(* curve builder, the run finder, the nearest-index mapping, the cycle     *)
(* matcher and the two window-selection pipelines.                         *)
(*                                                                         *)
(* Conventions.  Arrays are sequences; a source index i (0-based) is       *)
(* element i+1 of the sequence, and every index held in the model is the   *)
(* 0-based source index.  Quantities that take half-integer values in the  *)
(* source are held doubled, with a name ending in 2: a distance-curve      *)
(* entry v is held as 2*v, first_valid_index f as f2 = 2*f, and the ratio  *)
(* dominant_period/delta as P2 = 2*dominant_period/delta.  The library     *)
(* semantics are those of the numpy the module runs on (Python 2, float    *)
(* slice bounds truncated, flatnotmasked_contiguous returning None for a   *)
(* fully masked array).                                                    *)
(***************************************************************************)
EXTENDS Integers, Sequences, FiniteSets, TLC

VARIABLES
    fle,    \* the find_local_extrema call under way
    cid,    \* the complete_index_distance call under way
    fo,     \* the find_ones generator under way
    fc,     \* the find_closest call under way
    sf,     \* the skip_finder generator under way
    trace,  \* per invocation: the data and synthetic trace objects it is given
    geom,   \* per invocation: travel time, surface-wave cutoff, dominant period
    menu,   \* per invocation: the selection functions its caller uses
    frame,  \* per invocation: the local variables of the call under way
    inverse_mask,   \* the inverse_mask buffers of select_windows
    history \* per invocation: what the calls made so far returned

pure == <<fle, cid, fo, fc, sf>>
sel == <<trace, geom, menu, frame, inverse_mask, history>>
vars == <<fle, cid, fo, fc, sf, trace, geom, menu, frame, inverse_mask, history>>

\* Bounds of the model.
MaxLen == 4
MaxAmp == 2
MaxCurveLen == 10
MaxOnesLen == 6
MaxRef == 5
MaxCalls == 2
MaxSkipIdx == 5

\* np.empty: an entry no statement has written yet.
Unset == -1
\* Python's None where the source holds None or an index.
NoneValue == -1

\* getTravelTimes found no phase, or raised.
TTFail == -1

Idle == [pc |-> "idle"]

\* The two concurrent invocations.
Procs == {1, 2}

---------------------------------------------------------------------------
\* Sequence and numpy helpers.

Min(a, b) == IF a < b THEN a ELSE b
Max(a, b) == IF a > b THEN a ELSE b
Abs(x) == IF x < 0 THEN -x ELSE x

\* a[i] of the source.
At(a, i) == a[i + 1]

\* The indices of a length-n array.
Idx(n) == 0 .. (n - 1)

\* The signals of length 1 .. n over the amplitudes A.
Signals(n, A) == UNION {[1 .. k -> A] : k \in 1 .. n}

\* A slice bound k of an array of length n: a negative bound counts from the
\* end, and both are clipped to the array.
SliceBound(n, k) == IF k < 0 THEN Max(k + n, 0) ELSE Min(k, n)

\* The indices a[lo:hi] covers.
Slice(n, lo, hi) == {i \in Idx(n) : SliceBound(n, lo) <= i /\ i < SliceBound(n, hi)}

\* a[lo:hi] as a sequence.
SubArr(a, lo, hi) ==
    LET l == SliceBound(Len(a), lo)
        h == SliceBound(Len(a), hi)
    IN  IF h <= l THEN << >> ELSE [k \in 1 .. (h - l) |-> a[l + k]]

\* a[lo:hi] = v
SliceAssign(a, lo, hi, v) ==
    [k \in 1 .. Len(a) |-> IF (k - 1) \in Slice(Len(a), lo, hi) THEN v ELSE a[k]]

\* np.where(mask)[0] of a membership set: its indices in increasing order.
RECURSIVE SortedSeq(_)
SortedSeq(S) ==
    IF S = {} THEN << >>
    ELSE LET m == CHOOSE x \in S : \A y \in S : x <= y
         IN  <<m>> \o SortedSeq(S \ {m})

\* a.sort(): insertion of every element into a sorted sequence.
RECURSIVE Insert(_, _)
Insert(s, x) ==
    IF s = << >> THEN <<x>>
    ELSE IF x <= Head(s) THEN <<x>> \o s
    ELSE <<Head(s)>> \o Insert(Tail(s), x)

RECURSIVE Sort(_)
Sort(s) == IF s = << >> THEN << >> ELSE Insert(Sort(Tail(s)), Head(s))

Range(s) == {s[k] : k \in 1 .. Len(s)}

RECURSIVE Sum(_)
Sum(s) == IF s = << >> THEN 0 ELSE Head(s) + Sum(Tail(s))

StrictlyIncreasing(s) == \A k \in 1 .. (Len(s) - 1) : s[k] < s[k + 1]

\* No selection call exists: the state of the specifications of the helpers.
NoTrace == [data |-> << >>, synth |-> << >>]
SelIdle ==
    /\ trace = [p \in Procs |-> NoTrace]
    /\ geom = [p \in Procs |-> Idle]
    /\ menu = [p \in Procs |-> {}]
    /\ frame = [p \in Procs |-> Idle]
    /\ inverse_mask = [p \in Procs |-> << >>]
    /\ history = [p \in Procs |-> << >>]

---------------------------------------------------------------------------
\* find_local_extrema

\* data[1:] > data[:-1] and data[:-1] > data[1:], element by element.
Rising(data) == [k \in 1 .. (Len(data) - 1) |-> data[k + 1] > data[k]]
Falling(data) == [k \in 1 .. (Len(data) - 1) |-> data[k] > data[k + 1]]

\* The peak mask with both border samples left out.
PeakMaskInterior(data) ==
    LET after_rise == <<FALSE>> \o Rising(data)
        before_fall == Falling(data) \o <<FALSE>>
    IN  [k \in 1 .. Len(data) |-> after_rise[k] /\ before_fall[k]]

\* Lines 88-89: np.r_[True, data[1:] > data[:-1]] &
\* np.r_[data[:-1] > data[1:], True].
PeakMask(data) ==
    LET after_rise == <<TRUE>> \o Rising(data)
        before_fall == Falling(data) \o <<TRUE>>
    IN  [k \in 1 .. Len(data) |-> after_rise[k] /\ before_fall[k]]

\* Lines 93-94: np.r_[True, data[1:] < data[:-1]] &
\* np.r_[data[:-1] < data[1:], True].
TroughMask(data) ==
    LET after_fall == <<TRUE>> \o Falling(data)
        before_rise == Rising(data) \o <<TRUE>>
    IN  [k \in 1 .. Len(data) |-> after_fall[k] /\ before_rise[k]]

\* Lines 90-91: np.where, and the start_index filter (start_index held
\* doubled).
PeakIndices(data, start2) ==
    {i \in Idx(Len(data)) : At(PeakMask(data), i) /\ 2 * i >= start2}

\* The troughs with the start_index filter left out.
TroughIndicesNoStart(data, start2) ==
    {i \in Idx(Len(data)) : At(TroughMask(data), i)}

\* Lines 95-96.
TroughIndices(data, start2) ==
    {i \in Idx(Len(data)) : At(TroughMask(data), i) /\ 2 * i >= start2}

\* What "if <array>:" does with the array np.intersect1d returns: an empty
\* array is false, a one-element array has the truth value of its element,
\* a longer one raises ValueError.
ArrayTruth(a) ==
    IF Len(a) = 0 THEN "false"
    ELSE IF Len(a) = 1 THEN (IF a[1] # 0 THEN "true" ELSE "false")
    ELSE "ValueError"

\* The merge of lines 98-106 on the two index arrays.
MergeExtrema(peaks, troughs) ==
    LET common == SortedSeq(Range(peaks) \cap Range(troughs))
        truth == ArrayTruth(common)
    IN  IF truth = "true" THEN [kind |-> "raise", exc |-> "Exception"]
        ELSE IF truth = "ValueError" THEN [kind |-> "raise", exc |-> "ValueError"]
        ELSE [kind |-> "ok", peaks |-> peaks, troughs |-> troughs,
              extrema |-> Sort(peaks \o troughs)]

FindLocalExtrema(data, start2) ==
    MergeExtrema(SortedSeq(PeakIndices(data, start2)),
                 SortedSeq(TroughIndices(data, start2)))

\* The signal of the doctest (lines 78-85).
DocSignal == <<0, 1, 2, 1, 0, 1, 2, 1>>

InitExtrema ==
    /\ fle \in {[pc |-> "detect", data |-> d, start2 |-> s] :
                    d \in Signals(MaxLen, 0 .. MaxAmp) \cup {DocSignal},
                    s \in 0 .. (2 * MaxLen)}
    /\ cid = Idle /\ fo = Idle /\ fc = Idle /\ sf = Idle /\ SelIdle

\* Lines 88-96.
FleDetect ==
    /\ fle.pc = "detect"
    /\ fle' = [pc |-> "merge", data |-> fle.data, start2 |-> fle.start2,
               peaks |-> SortedSeq(PeakIndices(fle.data, fle.start2)),
               troughs |-> SortedSeq(TroughIndices(fle.data, fle.start2))]
    /\ UNCHANGED <<cid, fo, fc, sf, sel>>

\* Lines 98-106.
FleMerge ==
    /\ fle.pc = "merge"
    /\ fle' = [pc |-> "done", data |-> fle.data, start2 |-> fle.start2,
               ret |-> MergeExtrema(fle.peaks, fle.troughs)]
    /\ UNCHANGED <<cid, fo, fc, sf, sel>>

NextExtrema == FleDetect \/ FleMerge

SpecExtrema == InitExtrema /\ [][NextExtrema]_vars

\* C1: every result find_local_extrema returns has peaks and troughs that
\* share no index, and an extrema sequence that is the sorted union of the
\* two and strictly increasing.
C1_DisjointSortedUnion ==
    (fle.pc = "done" /\ fle.ret.kind = "ok") =>
        /\ Range(fle.ret.peaks) \cap Range(fle.ret.troughs) = {}
        /\ fle.ret.extrema = SortedSeq(Range(fle.ret.peaks) \cup Range(fle.ret.troughs))
        /\ StrictlyIncreasing(fle.ret.extrema)


\* C12 as stated: for every signal of two samples or more and start_index 0,
\* index 0 and index n-1 are both in the extrema find_local_extrema returns.
C12_BordersAreExtrema ==
    (fle.pc = "done" /\ Len(fle.data) >= 2 /\ fle.start2 = 0) =>
        /\ fle.ret.kind = "ok"
        /\ 0 \in Range(fle.ret.extrema)
        /\ (Len(fle.data) - 1) \in Range(fle.ret.extrema)

\* C12: for every signal of two samples or more and start_index 0, a border
\* sample is in the extrema exactly when it differs from its one neighbour,
\* as a peak when it is greater and as a trough when it is smaller.
C12_BordersThatDiffer ==
    (fle.pc = "done" /\ Len(fle.data) >= 2 /\ fle.start2 = 0) =>
        LET n == Len(fle.data)
            Border(i, j) ==
                /\ i \in Range(fle.ret.extrema) <=> At(fle.data, i) # At(fle.data, j)
                /\ i \in Range(fle.ret.peaks) <=> At(fle.data, i) > At(fle.data, j)
                /\ i \in Range(fle.ret.troughs) <=> At(fle.data, i) < At(fle.data, j)
        IN  /\ fle.ret.kind = "ok"
            /\ Border(0, 1)
            /\ Border(n - 1, n - 2)

\* A signal whose first sample is a border peak and whose last sample, equal
\* to its neighbour, is no extremum.
C12_Witness ==
    /\ fle.pc = "done" /\ Len(fle.data) >= 3 /\ fle.start2 = 0
    /\ fle.ret.kind = "ok"
    /\ 0 \in Range(fle.ret.peaks)
    /\ (Len(fle.data) - 1) \notin Range(fle.ret.extrema)

\* The neighbours of index i that exist in a signal of n samples.
Neighbours(i, n) == {i - 1, i + 1} \cap Idx(n)

\* C13: the peaks find_local_extrema returns are exactly the indices at or
\* after start_index whose sample is strictly greater than every neighbour
\* that exists, the troughs exactly those whose sample is strictly smaller,
\* both in increasing order.
C13_StrictExtrema ==
    (fle.pc = "done" /\ fle.ret.kind = "ok") =>
        LET n == Len(fle.data)
        IN  /\ StrictlyIncreasing(fle.ret.peaks)
            /\ StrictlyIncreasing(fle.ret.troughs)
            /\ Range(fle.ret.peaks) =
                   {i \in Idx(n) : /\ 2 * i >= fle.start2
                                   /\ \A j \in Neighbours(i, n) :
                                          At(fle.data, i) > At(fle.data, j)}
            /\ Range(fle.ret.troughs) =
                   {i \in Idx(n) : /\ 2 * i >= fle.start2
                                   /\ \A j \in Neighbours(i, n) :
                                          At(fle.data, i) < At(fle.data, j)}

\* The doctest, with a start_index that cuts the first trough off.
C13_Witness ==
    /\ fle.pc = "done" /\ fle.data = DocSignal /\ fle.start2 = 1
    /\ fle.ret.kind = "ok"
    /\ fle.ret.peaks = <<2, 6>>
    /\ fle.ret.troughs = <<4, 7>>

\* C14: whenever the peaks and the troughs find_local_extrema computes share
\* an index, the call ends with the internal-consistency error.
C14_OverlapIsFatal ==
    (fle.pc = "done"
     /\ PeakIndices(fle.data, fle.start2) \cap TroughIndices(fle.data, fle.start2) # {})
        => fle.ret.kind = "raise"

---------------------------------------------------------------------------
\* complete_index_distance (curve entries held doubled)

\* a[i] = v for an index i inside the array.
IndexAssign(a, i, v) == [a EXCEPT ![i + 1] = v]

\* Lines 139-142: the allocation and the left border.
CidLeft(indices, final_length) ==
    SliceAssign([k \in 1 .. final_length |-> Unset], 0, At(indices, 0),
                2 * (At(indices, 0) + 1))

\* The iteration without line 155: the entry at left_idx keeps the gap to the
\* right.
CidMiddleNoMean(curve, indices, i) ==
    SliceAssign(curve, At(indices, i), At(indices, i + 1) + 1,
                2 * (At(indices, i + 1) - At(indices, i)))

\* The iteration taking for a distance the number of samples strictly
\* between two indices.
CidMiddleBetween(curve, indices, i) ==
    LET left_idx == At(indices, i)
        right_idx == At(indices, i + 1)
        right_distance == right_idx - left_idx - 1
        left_distance == IF i = 0 THEN left_idx
                         ELSE left_idx - At(indices, i - 1) - 1
    IN  IndexAssign(SliceAssign(curve, left_idx, right_idx + 1, 2 * right_distance),
                    left_idx, right_distance + left_distance)

\* Lines 145-155: iteration _i of the loop over consecutive pairs.
CidMiddle(curve, indices, i) ==
    LET left_idx == At(indices, i)
        right_idx == At(indices, i + 1)
        right_distance == right_idx - left_idx
        left_distance == IF i = 0 THEN left_idx + 1
                         ELSE left_idx - At(indices, i - 1)
    IN  IndexAssign(SliceAssign(curve, left_idx, right_idx + 1, 2 * right_distance),
                    left_idx, right_distance + left_distance)

\* Lines 157-158: the right border.
CidRightFill(curve, indices, final_length) ==
    SliceAssign(curve, At(indices, Len(indices) - 1) + 1, final_length,
                2 * (final_length - At(indices, Len(indices) - 1)))

\* Lines 159-160: the entry at the last index.
CidRightLast(curve, indices, final_length) ==
    IndexAssign(curve, At(indices, Len(indices) - 1),
                (final_length - At(indices, Len(indices) - 1))
                + (At(indices, Len(indices) - 1) - At(indices, Len(indices) - 2)))

RECURSIVE CidLoop(_, _, _)
CidLoop(curve, indices, i) ==
    IF i >= Len(indices) - 1 THEN curve
    ELSE CidLoop(CidMiddle(curve, indices, i), indices, i + 1)

\* The whole function: indices[0] of an empty array and indices[-2] of a
\* one-element array raise IndexError.
CompleteIndexDistance(indices, final_length) ==
    IF Len(indices) < 2 THEN [kind |-> "raise", exc |-> "IndexError"]
    ELSE [kind |-> "ok",
          curve |-> CidRightLast(
                        CidRightFill(CidLoop(CidLeft(indices, final_length), indices, 0),
                                     indices, final_length),
                        indices, final_length)]

InitDistance ==
    /\ cid \in UNION {{[pc |-> "left", indices |-> SortedSeq(S), final_length |-> n] :
                            S \in SUBSET Idx(n)} : n \in 1 .. MaxCurveLen}
    /\ fle = Idle /\ fo = Idle /\ fc = Idle /\ sf = Idle /\ SelIdle

\* Lines 139-142.
CidLeftBorder ==
    /\ cid.pc = "left"
    /\ cid' = IF Len(cid.indices) = 0
              THEN [pc |-> "done", indices |-> cid.indices,
                    final_length |-> cid.final_length,
                    ret |-> [kind |-> "raise", exc |-> "IndexError"]]
              ELSE [pc |-> "loop", indices |-> cid.indices,
                    final_length |-> cid.final_length, i |-> 0,
                    curve |-> CidLeft(cid.indices, cid.final_length)]
    /\ UNCHANGED <<fle, fo, fc, sf, sel>>

\* Lines 144-155: one iteration.
CidIterate ==
    /\ cid.pc = "loop"
    /\ cid.i < Len(cid.indices) - 1
    /\ cid' = [cid EXCEPT !.i = cid.i + 1,
                          !.curve = CidMiddle(cid.curve, cid.indices, cid.i)]
    /\ UNCHANGED <<fle, fo, fc, sf, sel>>

\* Lines 156-161.
CidRightBorder ==
    /\ cid.pc = "loop"
    /\ cid.i >= Len(cid.indices) - 1
    /\ cid' = [pc |-> "done", indices |-> cid.indices,
               final_length |-> cid.final_length,
               ret |-> IF Len(cid.indices) < 2
                       THEN [kind |-> "raise", exc |-> "IndexError"]
                       ELSE [kind |-> "ok",
                             curve |-> CidRightLast(
                                 CidRightFill(cid.curve, cid.indices, cid.final_length),
                                 cid.indices, cid.final_length)]]
    /\ UNCHANGED <<fle, fo, fc, sf, sel>>

NextDistance == CidLeftBorder \/ CidIterate \/ CidRightBorder

SpecDistance == InitDistance /\ [][NextDistance]_vars

\* The gap before the k-th index (1-based k) and the gap after it.
GapBefore(indices, k) ==
    IF k = 1 THEN indices[1] + 1 ELSE indices[k] - indices[k - 1]
GapAfter(indices, final_length, k) ==
    IF k = Len(indices) THEN final_length - indices[k] ELSE indices[k + 1] - indices[k]

\* The curve entry (doubled) the claim gives sample j.
ExpectedDistance2(indices, final_length, j) ==
    IF j < indices[1] THEN 2 * (indices[1] + 1)
    ELSE IF j > indices[Len(indices)] THEN 2 * (final_length - indices[Len(indices)])
    ELSE IF \E k \in 1 .. Len(indices) : indices[k] = j
         THEN LET k == CHOOSE k \in 1 .. Len(indices) : indices[k] = j
              IN  GapBefore(indices, k) + GapAfter(indices, final_length, k)
    ELSE LET k == CHOOSE k \in 1 .. (Len(indices) - 1) :
                      indices[k] < j /\ j < indices[k + 1]
         IN  2 * (indices[k + 1] - indices[k])

\* C10: with at least two strictly increasing indices in [0, length), the
\* curve has exactly `length` entries: indices[0]+1 left of the first index,
\* right-left strictly between two consecutive indices, the mean of the two
\* neighbouring gaps at an index, length-indices[-1] right of the last.
C10_DistanceCurve ==
    (cid.pc = "done" /\ Len(cid.indices) >= 2) =>
        /\ cid.ret.kind = "ok"
        /\ Len(cid.ret.curve) = cid.final_length
        /\ \A j \in Idx(cid.final_length) :
               At(cid.ret.curve, j) = ExpectedDistance2(cid.indices, cid.final_length, j)

\* The doctest of lines 128-130 has run.
C10_Witness ==
    /\ cid.pc = "done"
    /\ cid.indices = <<2, 6, 7>>
    /\ cid.final_length = 10
    /\ cid.ret.kind = "ok"
    /\ cid.ret.curve = <<6, 6, 7, 8, 8, 8, 5, 4, 6, 6>>


\* C11: given an index sequence with exactly one element,
\* complete_index_distance does not fail and returns a curve of the requested
\* length.
C11_SingleIndex ==
    (cid.pc = "done" /\ Len(cid.indices) = 1) =>
        /\ cid.ret.kind = "ok"
        /\ Len(cid.ret.curve) = cid.final_length

\* C28: for every strictly increasing sequence of two or more indices in
\* [0, final_length), every entry of the curve complete_index_distance
\* returns is at least 1 (held doubled: at least 2, a whole number of
\* halves), so that the synthetic distance curves select_windows divides by
\* (lines 469-474) hold no zero.
C28_EntriesAtLeastOne ==
    /\ (cid.pc = "done" /\ Len(cid.indices) >= 2) =>
           /\ cid.ret.kind = "ok"
           /\ \A j \in Idx(cid.final_length) : At(cid.ret.curve, j) >= 2
    /\ \A p \in {q \in DOMAIN frame : "curves" \in DOMAIN frame[q]} :
           \A k \in DOMAIN frame[p].curves :
               \A j \in Idx(frame[p].npts) : At(frame[p].curves[k], j) >= 2

\* A curve has been returned that holds the entry 1 (at an index with its
\* neighbours one sample away on both sides) and an entry that is no whole
\* number.
C28_Witness ==
    /\ cid.pc = "done" /\ Len(cid.indices) >= 3
    /\ cid.ret.kind = "ok"
    /\ \E j \in Idx(cid.final_length) : At(cid.ret.curve, j) = 2
    /\ \E j \in Idx(cid.final_length) : At(cid.ret.curve, j) % 2 = 1

---------------------------------------------------------------------------
\* find_ones

\* "if start_index:" of line 194.
Truthy(x) == x # NoneValue /\ x # 0

\* Lines 183-193: the loop body on one value; g holds idx, start_index and
\* the pairs yielded so far.
FoBody(g, value) ==
    LET idx == g.idx + 1
    IN  IF value = 1
        THEN IF g.start_index = NoneValue
             THEN [g EXCEPT !.idx = idx, !.start_index = idx]
             ELSE [g EXCEPT !.idx = idx]
        ELSE IF g.start_index = NoneValue
             THEN [g EXCEPT !.idx = idx]
             ELSE [g EXCEPT !.idx = idx, !.start_index = NoneValue,
                            !.yielded = Append(g.yielded, <<g.start_index, idx - 1>>)]

\* Lines 194-195: after the loop.
FoTail(g) ==
    IF Truthy(g.start_index)
    THEN Append(g.yielded, <<g.start_index, g.idx>>)
    ELSE g.yielded

RECURSIVE FoLoop(_, _)
FoLoop(g, rest) ==
    IF rest = << >> THEN g ELSE FoLoop(FoBody(g, Head(rest)), Tail(rest))

\* Everything the generator yields, in order.
FindOnes(data) ==
    FoTail(FoLoop([idx |-> -1, start_index |-> NoneValue, yielded |-> << >>], data))

InitOnes ==
    /\ fo \in {[pc |-> "loop", data |-> d, idx |-> -1, start_index |-> NoneValue,
                yielded |-> << >>] :
                    d \in UNION {[1 .. k -> 0 .. 2] : k \in 0 .. MaxOnesLen}}
    /\ fle = Idle /\ cid = Idle /\ fc = Idle /\ sf = Idle /\ SelIdle

\* Lines 182-193: one iteration.
FoIterate ==
    /\ fo.pc = "loop"
    /\ fo.idx + 1 < Len(fo.data)
    /\ LET g == FoBody([idx |-> fo.idx, start_index |-> fo.start_index,
                        yielded |-> fo.yielded], At(fo.data, fo.idx + 1))
       IN  fo' = [fo EXCEPT !.idx = g.idx, !.start_index = g.start_index,
                            !.yielded = g.yielded]
    /\ UNCHANGED <<fle, cid, fc, sf, sel>>

\* Lines 194-195.
FoFinish ==
    /\ fo.pc = "loop"
    /\ fo.idx + 1 >= Len(fo.data)
    /\ fo' = [fo EXCEPT !.pc = "done",
                        !.yielded = FoTail([idx |-> fo.idx, start_index |-> fo.start_index,
                                            yielded |-> fo.yielded])]
    /\ UNCHANGED <<fle, cid, fc, sf, sel>>

NextOnes == FoIterate \/ FoFinish

SpecOnes == InitOnes /\ [][NextOnes]_vars

\* The maximal runs of ones of data, as inclusive (first, last) pairs.
MaximalRuns(data) ==
    {<<a, b>> \in Idx(Len(data)) \X Idx(Len(data)) :
        /\ a <= b
        /\ \A j \in a .. b : At(data, j) = 1
        /\ (a = 0 \/ At(data, a - 1) # 1)
        /\ (b = Len(data) - 1 \/ At(data, b + 1) # 1)}

\* C8: find_ones yields, in increasing order, exactly one inclusive
\* (first, last) pair for each maximal run of ones, and nothing else.
C8_ExactlyTheRuns ==
    fo.pc = "done" =>
        /\ Range(fo.yielded) = MaximalRuns(fo.data)
        /\ Len(fo.yielded) = Cardinality(MaximalRuns(fo.data))
        /\ \A k \in 1 .. (Len(fo.yielded) - 1) : fo.yielded[k][2] < fo.yielded[k + 1][1]

---------------------------------------------------------------------------
\* find_closest

\* ref_array.searchsorted(target): the first position whose element is not
\* below target (ref_array sorted).
SearchSorted(ref, t) == Cardinality({k \in 1 .. Len(ref) : ref[k] < t})

\* np.clip
Clip(x, lo, hi) == Min(Max(x, lo), hi)

\* a[i] with Python's wrap of a negative index.
AtWrap(a, i) == IF i < 0 THEN a[i + Len(a) + 1] ELSE a[i + 1]

\* The mapping with "<=" in line 220: a tie goes to the smaller index.
ClosestIndexTieLow(ref, t) ==
    LET idx == Clip(SearchSorted(ref, t), 1, Len(ref) - 1)
    IN  IF t - AtWrap(ref, idx - 1) <= AtWrap(ref, idx) - t THEN idx - 1 ELSE idx

\* Lines 216-221 for one target value.
ClosestIndex(ref, t) ==
    LET idx == Clip(SearchSorted(ref, t), 1, Len(ref) - 1)
        left == AtWrap(ref, idx - 1)
        right == AtWrap(ref, idx)
    IN  IF t - left < right - t THEN idx - 1 ELSE idx

FindClosest(ref, target) == [k \in 1 .. Len(target) |-> ClosestIndex(ref, target[k])]

InitClosest ==
    /\ fc \in {[pc |-> "call", ref |-> SortedSeq(S), target |-> <<t>>] :
                    S \in {S \in SUBSET (0 .. MaxRef) : Cardinality(S) >= 2},
                    t \in (-2) .. (MaxRef + 2)}
    /\ fle = Idle /\ cid = Idle /\ fo = Idle /\ sf = Idle /\ SelIdle

\* Lines 216-221.
FcCall ==
    /\ fc.pc = "call"
    /\ fc' = [pc |-> "done", ref |-> fc.ref, target |-> fc.target,
              ret |-> FindClosest(fc.ref, fc.target)]
    /\ UNCHANGED <<fle, cid, fo, sf, sel>>

NextClosest == FcCall

SpecClosest == InitClosest /\ [][NextClosest]_vars

\* C9: for a strictly increasing reference of at least two elements the
\* returned index is in range and minimises |ref[i] - target|, and on a tie
\* between two adjacent reference values the larger index is returned.
C9_NearestIndex ==
    fc.pc = "done" =>
        \A k \in 1 .. Len(fc.target) :
            LET i == fc.ret[k]
                t == fc.target[k]
            IN  /\ i \in Idx(Len(fc.ref))
                /\ \A j \in Idx(Len(fc.ref)) :
                       /\ Abs(At(fc.ref, i) - t) <= Abs(At(fc.ref, j) - t)
                       /\ (Abs(At(fc.ref, i) - t) = Abs(At(fc.ref, j) - t)) => j <= i

\* A target exactly midway between two adjacent reference values was mapped.
C9_Witness ==
    /\ fc.pc = "done"
    /\ \E j \in 0 .. (Len(fc.ref) - 2) :
           /\ fc.target[1] - At(fc.ref, j) = At(fc.ref, j + 1) - fc.target[1]
           /\ fc.ret[1] = j + 1

---------------------------------------------------------------------------
\* skip_finder

\* np.diff
Diff(a) == IF Len(a) < 2 THEN << >> ELSE [k \in 1 .. (Len(a) - 1) |-> a[k + 1] - a[k]]

\* int(np.ceil(x * 0.5)) and int(np.floor(x * 0.5)) of an integer sum x.
CeilHalf(x) == -((-x) \div 2)
FloorHalf(x) == x \div 2

\* Lines 246-248: the window of the run (min_idx, max_idx) of the differences.
SkipWindow(s, run) ==
    <<CeilHalf(Sum(SubArr(s, run[1] - 1, run[1] + 1))),
      FloorHalf(Sum(SubArr(s, run[2] + 1, run[2] + 3)))>>

\* Everything skip_finder(d, s) yields, in order.
SkipFinder(d, s) ==
    LET ones == FindOnes(Diff(FindClosest(d, s)))
    IN  [k \in 1 .. Len(ones) |-> SkipWindow(s, ones[k])]

\* The index arrays skip_finder is given by select_windows: strictly
\* increasing, of two elements or more, here over 0 .. MaxSkipIdx.
IndexArrays == {SortedSeq(S) : S \in {S \in SUBSET (0 .. MaxSkipIdx) : Cardinality(S) >= 2}}

InitSkip ==
    /\ sf \in {[pc |-> "match", d |-> d, s |-> s] : d \in IndexArrays, s \in IndexArrays}
    /\ fle = Idle /\ cid = Idle /\ fo = Idle /\ fc = Idle /\ SelIdle

\* Line 245: the nearest reference index of every target, the differences,
\* and the runs of ones find_ones yields from them.
SfMatch ==
    /\ sf.pc = "match"
    /\ sf' = [pc |-> "yield", d |-> sf.d, s |-> sf.s,
              closest |-> FindClosest(sf.d, sf.s),
              ones |-> FindOnes(Diff(FindClosest(sf.d, sf.s))),
              n |-> 1, yielded |-> << >>]
    /\ UNCHANGED <<fle, cid, fo, fc, sel>>

\* Lines 246-248: the window of the next run is yielded.
SfYield ==
    /\ sf.pc = "yield"
    /\ sf.n <= Len(sf.ones)
    /\ sf' = [sf EXCEPT !.n = sf.n + 1,
                        !.yielded = Append(sf.yielded, SkipWindow(sf.s, sf.ones[sf.n]))]
    /\ UNCHANGED <<fle, cid, fo, fc, sel>>

\* find_ones is exhausted: the generator ends.
SfStop ==
    /\ sf.pc = "yield"
    /\ sf.n > Len(sf.ones)
    /\ sf' = [sf EXCEPT !.pc = "done"]
    /\ UNCHANGED <<fle, cid, fo, fc, sel>>

NextSkip == SfMatch \/ SfYield \/ SfStop

SpecSkip == InitSkip /\ [][NextSkip]_vars

\* C17: every window (left, right) skip_finder yields for the run of ones
\* (a, b), that is for the matched targets s[a] .. s[b+1], has left the
\* ceiling of the mean of s[a-1] and s[a] and right the floor of the mean of
\* s[b+1] and s[b+2] where those exist, and for every run, also one touching
\* the first or the last target, left <= s[a], s[b+1] <= right and
\* left <= right.
C17_WindowSpansRun ==
    sf.pc \in {"yield", "done"} =>
        \A k \in DOMAIN sf.yielded :
            LET a == sf.ones[k][1]
                b == sf.ones[k][2]
                left == sf.yielded[k][1]
                right == sf.yielded[k][2]
            IN  /\ a >= 1 => left = CeilHalf(At(sf.s, a - 1) + At(sf.s, a))
                /\ b + 2 < Len(sf.s) => right = FloorHalf(At(sf.s, b + 1) + At(sf.s, b + 2))
                /\ left <= At(sf.s, a)
                /\ At(sf.s, b + 1) <= right
                /\ left <= right

\* C18: skip_finder yields exactly one window for every maximal run of
\* steps of +1 of the nearest-reference index, and nothing else; when every
\* step is +1 it yields exactly one window.
C18_OneWindowPerRun ==
    sf.pc = "done" =>
        LET steps == Diff(sf.closest)
        IN  /\ Len(sf.yielded) = Cardinality(MaximalRuns(steps))
            /\ Range(sf.ones) = MaximalRuns(steps)
            /\ (\A k \in DOMAIN steps : steps[k] = 1) => Len(sf.yielded) = 1

---------------------------------------------------------------------------
\* select_windows

\* The indices (not doubled) a float slice bound f2/2 truncates to.
Trunc2(f2) == f2 \div 2

\* int(round(dominant_period / delta)): Python 2 rounds a half away from zero.
RoundHalf(P2) == (P2 + 1) \div 2

RECURSIVE MaxOf(_)
MaxOf(s) == IF Len(s) = 1 THEN s[1] ELSE Max(s[1], MaxOf(Tail(s)))

AbsArr(a) == [k \in 1 .. Len(a) |-> Abs(a[k])]

\* (a ** 2).sum()
Energy(a) == Sum([k \in 1 .. Len(a) |-> a[k] * a[k]])

\* Lines 489-491 (and 494-495): a fresh all-False mask with every window of
\* skip_finder(d, s) set to True.
RECURSIVE FillWindows(_, _)
FillWindows(mask, windows) ==
    IF windows = << >> THEN mask
    ELSE FillWindows(SliceAssign(mask, Head(windows)[1], Head(windows)[2], TRUE),
                     Tail(windows))

AllFalse(n) == [k \in 1 .. n |-> FALSE]

\* window_mask &= inverse_mask
AndMask(a, b) == [k \in 1 .. Len(a) |-> a[k] /\ b[k]]

\* np.ma.flatnotmasked_contiguous of a validity array: the maximal runs of
\* valid samples as (start, stop) slices, in order; the empty sequence stands
\* for the None it returns when every sample is masked.
NotMaskedContiguous(valid) ==
    LET starts == {i \in Idx(Len(valid)) :
                       At(valid, i) /\ (i = 0 \/ ~At(valid, i - 1))}
        StopOf(a) == CHOOSE b \in (a + 1) .. Len(valid) :
                       /\ \A j \in a .. (b - 1) : At(valid, j)
                       /\ (b = Len(valid) \/ ~At(valid, b))
        ordered == SortedSeq(starts)
    IN  [k \in 1 .. Len(ordered) |-> <<ordered[k], StopOf(ordered[k])>>]

\* The rejection with the test of the synthetic amplitude left out.
BelowNoiseDataOnly(data, synth, run, noise_level) ==
    MaxOf(AbsArr(SubArr(data, run[1], run[2]))) < 5 * noise_level

\* Lines 512-516: the noise-floor rejection of the run [start, stop).
BelowNoise(data, synth, run, noise_level) ==
    \/ MaxOf(AbsArr(SubArr(data, run[1], run[2]))) < 5 * noise_level
    \/ MaxOf(AbsArr(SubArr(synth, run[1], run[2]))) < 5 * noise_level

\* Lines 520-524 (and 392-396): the energy rejection of the run.
EnergyMismatch(data, synth, run) ==
    LET data_energy == Energy(SubArr(data, run[1], run[2]))
        synth_energy == Energy(SubArr(synth, run[1], run[2]))
    IN  Max(data_energy, synth_energy) > 10 * Min(data_energy, synth_energy)

\* The assembly with the merge of lines 527-528 left out.
AlwaysAppend(final_windows, run) == Append(final_windows, run)

\* The merge taken only when the run starts where the last window stops.
MergeWhenTouching(final_windows, run) ==
    IF final_windows # << >> /\ final_windows[Len(final_windows)][2] = run[1]
    THEN [final_windows EXCEPT ![Len(final_windows)] =
              <<final_windows[Len(final_windows)][1], run[2]>>]
    ELSE Append(final_windows, run)

\* Lines 527-530: merge into the last window, or append.
MergeOrAppend(final_windows, run) ==
    IF final_windows # << >> /\ final_windows[Len(final_windows)][2] + 1 = run[1]
    THEN [final_windows EXCEPT ![Len(final_windows)] =
              <<final_windows[Len(final_windows)][1], run[2]>>]
    ELSE Append(final_windows, run)

\* The iteration with the length test of lines 506-508 left out.
AssembleRunAnyLength(final_windows, run, data, synth, noise_level, min_window_length) ==
    IF BelowNoise(data, synth, run, noise_level) THEN final_windows
    ELSE IF EnergyMismatch(data, synth, run) THEN final_windows
    ELSE MergeOrAppend(final_windows, run)

\* Lines 506-530: one iteration of the assembly loop.
AssembleRun(final_windows, run, data, synth, noise_level, min_window_length) ==
    IF run[2] - run[1] < min_window_length THEN final_windows
    ELSE IF BelowNoise(data, synth, run, noise_level) THEN final_windows
    ELSE IF EnergyMismatch(data, synth, run) THEN final_windows
    ELSE MergeOrAppend(final_windows, run)

RECURSIVE AssembleAll(_, _, _, _, _, _)
AssembleAll(final_windows, runs, data, synth, noise_level, min_window_length) ==
    IF runs = << >> THEN final_windows
    ELSE AssembleAll(AssembleRun(final_windows, Head(runs), data, synth, noise_level,
                                 min_window_length),
                     Tail(runs), data, synth, noise_level, min_window_length)

Raise(exc) == [kind |-> "raise", exc |-> exc]
Return(windows) == [kind |-> "ok", windows |-> windows]

\* A failed lookup answered with an arrival at sample 1.
FirstArrivalDefault(g) == [kind |-> "ok", tt2 |-> IF g.tt2 = TTFail THEN 2 ELSE g.tt2]

\* Lines 268-269 and 290-291: the earliest arrival among the phases of
\* getTravelTimes, in samples and doubled; getTravelTimes raising, or min()
\* of no phase at all, ends the call.
FirstArrival(g) ==
    IF g.tt2 = TTFail THEN Raise("TravelTimeError") ELSE [kind |-> "ok", tt2 |-> g.tt2]

\* Lines 456-457 and 489-496: the validity mask after both cycle-matcher
\* passes.
WindowMask(npts, first_valid_index2, data_ext, synth_ext) ==
    AndMask(AndMask(SliceAssign([k \in 1 .. npts |-> TRUE], 0,
                                Trunc2(first_valid_index2), FALSE),
                    FillWindows(AllFalse(npts),
                                SkipFinder(data_ext.peaks, synth_ext.peaks))),
            FillWindows(AllFalse(npts),
                        SkipFinder(data_ext.troughs, synth_ext.troughs)))

\* What one call of select_windows gives when nothing else runs.
SelectWindows(data, synth, g) ==
    IF FirstArrival(g).kind = "raise" THEN FirstArrival(g)
    ELSE IF SubArr(data, 0, Trunc2(FirstArrival(g).tt2)) = << >> THEN Raise("ValueError")
    ELSE LET first_valid_index2 == FirstArrival(g).tt2
             data_ext == FindLocalExtrema(data, first_valid_index2)
             synth_ext == FindLocalExtrema(synth, first_valid_index2)
         IN  IF data_ext.kind = "raise" THEN data_ext
             ELSE IF synth_ext.kind = "raise" THEN synth_ext
             ELSE IF \E ind \in {data_ext.peaks, synth_ext.peaks, data_ext.troughs,
                                 synth_ext.troughs, data_ext.extrema, synth_ext.extrema} :
                         CompleteIndexDistance(ind, Len(synth)).kind = "raise"
                  THEN Raise("IndexError")
             ELSE LET runs == NotMaskedContiguous(
                                  WindowMask(Len(synth), first_valid_index2, data_ext,
                                             synth_ext))
                  IN  IF runs = << >> THEN Raise("TypeError")
                      ELSE Return(AssembleAll(<< >>, runs, data, synth,
                                              MaxOf(AbsArr(SubArr(data, 0,
                                                               Trunc2(first_valid_index2)))),
                                              RoundHalf(g.P2)))

---------------------------------------------------------------------------
\* select_windows_2

\* int(round(dominant_period / dt)), made odd (lines 296-299).
WindowLength(P2) ==
    LET window_length == RoundHalf(P2)
    IN  IF window_length % 2 = 0 THEN window_length + 1 ELSE window_length

\* np.hanning(window_length) for the lengths whose taper is exact in floating
\* point: np.hanning(1) is [1.] and np.hanning(3) is [0., 1., 0.].
Hanning(window_length) ==
    CASE window_length = 1 -> <<1>>
      [] window_length = 3 -> <<0, 1, 0>>

\* Lines 327-329: trace.data[start_idx: end_idx].copy() * taper.
Tapered(sig, start_idx, window_length) ==
    [k \in 1 .. window_length |-> At(sig, start_idx + k - 1) * Hanning(window_length)[k]]

RECURSIVE MinOf(_)
MinOf(s) == IF Len(s) = 1 THEN s[1] ELSE Min(s[1], MinOf(Tail(s)))

\* ndarray.ptp()
Ptp(a) == MaxOf(a) - MinOf(a)

\* np.correlate(a, v, mode="full") of two arrays of one length M: entry k is
\* the sum of a[n + k - (M - 1)] * v[n] over the n where both exist.
Correlate(a, v) ==
    LET M == Len(a)
    IN  [k \in 1 .. (2 * M - 1) |->
            Sum([m \in 1 .. M |->
                    IF m + k - M \in 1 .. M THEN a[m + k - M] * v[m] ELSE 0])]

\* ndarray.argmax(): the first index of the maximum.
ArgMax(c) ==
    CHOOSE i \in Idx(Len(c)) :
        /\ At(c, i) = MaxOf(c)
        /\ \A j \in Idx(i) : At(c, j) < MaxOf(c)

\* An entry of a masked array: masked (np.ma.masked_all, nothing written), or
\* holding a value.
Masked == [masked |-> TRUE]
Value(v) == [masked |-> FALSE, v |-> v]

\* Line 332: the window has essentially no energy.
NoEnergy(synthetic_window, synth) == 1000 * Ptp(synthetic_window) < Ptp(synth)

\* The iteration writing its two values at the start of the window instead
\* of its midpoint.
SlideWindowAtStart(f, data, synth) ==
    LET data_window == Tapered(data, f.start_idx, f.window_length)
        synthetic_window == Tapered(synth, f.start_idx, f.window_length)
        cc == Correlate(data_window, synthetic_window)
        time_shift == ArgMax(cc) - f.window_length + 1
    IN  IF NoEnergy(synthetic_window, synth)
        THEN [sliding_time_shift |-> f.sliding_time_shift,
              max_cc_coeff |-> f.max_cc_coeff]
        ELSE [sliding_time_shift |->
                  IndexAssign(f.sliding_time_shift, f.start_idx, Value(time_shift)),
              max_cc_coeff |->
                  IndexAssign(f.max_cc_coeff, f.start_idx,
                              Value([num |-> MaxOf(cc),
                                     den2 |-> Energy(synthetic_window)
                                              * Energy(data_window)]))]

\* Lines 327-348: one iteration of the sliding-window loop on the frame f.
\* The time shift is held in samples (the source divides it by
\* dominant_period / dt), the correlation coefficient as the maximum of cc
\* and the product of the two energies it is divided by the root of.
SlideWindow(f, data, synth) ==
    LET data_window == Tapered(data, f.start_idx, f.window_length)
        synthetic_window == Tapered(synth, f.start_idx, f.window_length)
        midpoint_idx == f.start_idx + f.window_length \div 2
        cc == Correlate(data_window, synthetic_window)
        time_shift == ArgMax(cc) - f.window_length + 1
    IN  IF NoEnergy(synthetic_window, synth)
        THEN [sliding_time_shift |-> f.sliding_time_shift,
              max_cc_coeff |-> f.max_cc_coeff]
        ELSE [sliding_time_shift |->
                  IndexAssign(f.sliding_time_shift, midpoint_idx, Value(time_shift)),
              max_cc_coeff |->
                  IndexAssign(f.max_cc_coeff, midpoint_idx,
                              Value([num |-> MaxOf(cc),
                                     den2 |-> Energy(synthetic_window)
                                              * Energy(data_window)]))]

\* int(np.ceil(a / b)) for b > 0.
CeilDiv(a, b) == -((-a) \div b)

\* Line 368: |time_shift * dt / dominant_period| > 0.2.
ShiftTooLarge(e, P2) == ~e.masked /\ 10 * Abs(e.v) > P2

\* Line 374: np.diff of two neighbouring entries exceeds 0.1 in absolute
\* value; the difference is masked where either entry is.
ShiftJump(a, b, P2) == ~a.masked /\ ~b.masked /\ 20 * Abs(b.v - a.v) > P2

\* Step 6 taking no coefficient for one below 0.7.
CcNeverBelow(e) == FALSE

\* Line 381: cc.max() / sqrt(energies) < 0.7; 0/0 is NaN and compares False.
CcBelow(e) ==
    /\ ~e.masked
    /\ e.v.den2 # 0
    /\ (e.v.num < 0 \/ 100 * e.v.num * e.v.num < 49 * e.v.den2)

\* The entries no iteration has written.
UnsetEntries(a) == {i \in Idx(Len(a)) : At(a, i).masked}

\* Lines 375-377: the buffer around every jump masked, in index order.
RECURSIVE MaskJumps(_, _, _)
MaskJumps(valid, indices, sample_buffer) ==
    IF indices = << >> THEN valid
    ELSE MaskJumps(SliceAssign(valid, Head(indices) - sample_buffer,
                               Head(indices) + sample_buffer, FALSE),
                   Tail(indices), sample_buffer)

\* Lines 353-359: steps 1 and 2, the validity array after the pre-arrival
\* pass.  The slice bound is int(ceil((first_tt_arrival - 0.5 *
\* dominant_period) / dt)), taken by the slice as it is, negative or not.
PreArrival(npts, first_tt_arrival2, P2) ==
    SliceAssign([k \in 1 .. npts |-> TRUE], 0,
                CeilDiv(2 * first_tt_arrival2 - P2, 4), FALSE)

\* Lines 353-381: steps 1 to 6 on the frame f.  The validity array is the
\* complement of time_windows.mask.  Steps 4 and 6 index with the data of a
\* masked comparison, so an entry never written takes part with whatever
\* np.empty left there: garbage is the set of those entries whose content
\* exceeds 0.2 in absolute value (line 368) or is below 0.7 (line 381).
TimeWindows(f, g, garbage) ==
    LET npts == f.npts
        step2 == PreArrival(npts, f.first_tt_arrival2, g.P2)
        step3 == SliceAssign(step2, g.cut, npts, FALSE)
        step4 == [k \in 1 .. npts |->
                     step3[k] /\ ~ShiftTooLarge(f.sliding_time_shift[k], g.P2)
                              /\ (k - 1) \notin garbage]
        sample_buffer == CeilDiv(g.P2, 20)
        indices == SortedSeq({i \in Idx(npts - 1) :
                                 ShiftJump(At(f.sliding_time_shift, i),
                                           At(f.sliding_time_shift, i + 1), g.P2)})
        step5 == MaskJumps(step4, indices, sample_buffer)
    IN  [k \in 1 .. npts |-> step5[k] /\ ~CcBelow(f.max_cc_coeff[k])]

\* Lines 388-397: one iteration of the assembly loop.
AssembleRun2(final_windows, run, data, synth, P2) ==
    IF 4 * (run[2] - run[1]) < P2 THEN final_windows
    ELSE IF EnergyMismatch(data, synth, run) THEN final_windows
    ELSE Append(final_windows, run)

---------------------------------------------------------------------------
\* The selection calls as processes: invocation p works on trace[p] with
\* geometry geom[p]; frame[p] holds its local variables.

\* One buffer for all invocations, as a module-level inverse_mask would be.
ScratchShared(p) == 1

\* The inverse_mask buffer invocation p uses: line 489 allocates it inside
\* the call, so every invocation has its own.
ScratchOf(p) == p

\* A buffer kept between calls and not zeroed.
StaleMask(left_over, npts) == IF Len(left_over) = npts THEN left_over ELSE AllFalse(npts)

\* Line 489: np.zeros(npts, dtype="bool"), whatever an earlier call left in
\* the buffer.
FreshMask(left_over, npts) == AllFalse(npts)

\* Both attributes written to both traces.
WriteStatsBoth(t, first_valid_index2, noise_level) ==
    [t EXCEPT !.data_stats = [first_valid_index2 |-> first_valid_index2,
                              noise_level |-> noise_level],
              !.synth_stats = [first_valid_index2 |-> first_valid_index2,
                               noise_level |-> noise_level]]

\* Lines 445-446: data_trace.stats.first_valid_index and
\* data_trace.stats.noise_level are set on the caller's trace object.
WriteStats(t, first_valid_index2, noise_level) ==
    [t EXCEPT !.data_stats = [first_valid_index2 |-> first_valid_index2,
                              noise_level |-> noise_level]]

\* A caller invokes fn on its pair of traces: up to MaxCalls calls, of which
\* one at most tries select_windows_2.
Call(p, fn) ==
    /\ frame[p].pc \in {"idle", "returned"}
    /\ fn \in menu[p]
    /\ Len(history[p]) < MaxCalls
    /\ fn = "select_windows_2" => \A k \in DOMAIN history[p] : history[p][k].fn # fn
    /\ frame' = [frame EXCEPT ![p] = [pc |-> "enter", fn |-> fn, before |-> trace[p]]]
    /\ UNCHANGED <<pure, trace, geom, menu, inverse_mask, history>>

\* The call of p ends with ret (a return or a raise).
Finish(p, ret) ==
    /\ frame' = [frame EXCEPT ![p] = [pc |-> "returned", fn |-> frame[p].fn,
                                      before |-> frame[p].before, ret |-> ret]]
    /\ history' = [history EXCEPT ![p] = Append(@, [fn |-> frame[p].fn, ret |-> ret])]

\* The frame of p with pc and the fields of `more` set.
Goto(p, pc, more) ==
    frame' = [frame EXCEPT ![p] =
        [k \in (DOMAIN frame[p]) \cup (DOMAIN more) \cup {"pc"} |->
            IF k = "pc" THEN pc
            ELSE IF k \in DOMAIN more THEN more[k] ELSE frame[p][k]]]

\* Lines 436-442: the sizes and find_first_valid_index.
SwArrival(p) ==
    /\ frame[p].pc = "enter" /\ frame[p].fn = "select_windows"
    /\ IF FirstArrival(geom[p]).kind = "raise"
       THEN Finish(p, FirstArrival(geom[p]))
       ELSE /\ Goto(p, "noise", [min_window_length |-> RoundHalf(geom[p].P2),
                                 npts |-> Len(trace[p].synth),
                                 first_valid_index2 |-> FirstArrival(geom[p]).tt2])
            /\ UNCHANGED history
    /\ UNCHANGED <<pure, trace, geom, menu, inverse_mask>>

\* Lines 444-446: the noise level, and the two attributes written to the
\* data trace.
SwNoise(p) ==
    /\ frame[p].pc = "noise"
    /\ LET pre == SubArr(trace[p].data, 0, Trunc2(frame[p].first_valid_index2))
       IN  IF pre = << >>
           THEN Finish(p, Raise("ValueError")) /\ UNCHANGED trace
           ELSE /\ Goto(p, "extrema", [noise_level |-> MaxOf(AbsArr(pre))])
                /\ trace' = [trace EXCEPT ![p] =
                                WriteStats(@, frame[p].first_valid_index2,
                                           MaxOf(AbsArr(pre)))]
                /\ UNCHANGED history
    /\ UNCHANGED <<pure, geom, menu, inverse_mask>>

\* Lines 449-457: the extrema of both traces and the initial mask.
SwExtrema(p) ==
    /\ frame[p].pc = "extrema"
    /\ LET data_ext == FindLocalExtrema(trace[p].data, frame[p].first_valid_index2)
           synth_ext == FindLocalExtrema(trace[p].synth, frame[p].first_valid_index2)
       IN  IF data_ext.kind = "raise" THEN Finish(p, data_ext)
           ELSE IF synth_ext.kind = "raise" THEN Finish(p, synth_ext)
           ELSE /\ Goto(p, "curves",
                        [data_ext |-> data_ext, synth_ext |-> synth_ext,
                         window_mask |-> SliceAssign(
                             [k \in 1 .. Len(trace[p].data) |-> TRUE], 0,
                             Trunc2(frame[p].first_valid_index2), FALSE)])
                /\ UNCHANGED history
    /\ UNCHANGED <<pure, trace, geom, menu, inverse_mask>>

\* Lines 460-465 in the order of the calls.
CurveArguments(f) ==
    <<f.data_ext.peaks, f.synth_ext.peaks, f.data_ext.troughs, f.synth_ext.troughs,
      f.data_ext.extrema, f.synth_ext.extrema>>

\* Lines 460-480: the six distance curves (their relative differences are
\* used by nothing that follows).
SwCurves(p) ==
    /\ frame[p].pc = "curves"
    /\ LET args == CurveArguments(frame[p])
           curves == [k \in 1 .. 6 |-> CompleteIndexDistance(args[k], frame[p].npts)]
       IN  IF \E k \in 1 .. 6 : curves[k].kind = "raise"
           THEN Finish(p, Raise("IndexError"))
           ELSE /\ Goto(p, "peaks", [curves |-> [k \in 1 .. 6 |-> curves[k].curve]])
                /\ UNCHANGED history
    /\ UNCHANGED <<pure, trace, geom, menu, inverse_mask>>

\* Lines 489-491: inverse_mask allocated and filled from the peaks.
SwPeaks(p) ==
    /\ frame[p].pc = "peaks"
    /\ inverse_mask' = [inverse_mask EXCEPT ![ScratchOf(p)] =
           FillWindows(FreshMask(@, frame[p].npts),
                       SkipFinder(frame[p].data_ext.peaks, frame[p].synth_ext.peaks))]
    /\ Goto(p, "and_peaks", [n |-> 0])
    /\ UNCHANGED <<pure, trace, geom, menu, history>>

\* Lines 492-493: the mask combined, the buffer cleared.
SwAndPeaks(p) ==
    /\ frame[p].pc = "and_peaks"
    /\ Goto(p, "troughs",
            [window_mask |-> AndMask(frame[p].window_mask, inverse_mask[ScratchOf(p)])])
    /\ inverse_mask' = [inverse_mask EXCEPT ![ScratchOf(p)] = AllFalse(Len(@))]
    /\ UNCHANGED <<pure, trace, geom, menu, history>>

\* Lines 494-495: the buffer filled from the troughs.
SwTroughs(p) ==
    /\ frame[p].pc = "troughs"
    /\ inverse_mask' = [inverse_mask EXCEPT ![ScratchOf(p)] =
           FillWindows(@, SkipFinder(frame[p].data_ext.troughs,
                                     frame[p].synth_ext.troughs))]
    /\ Goto(p, "and_troughs", [n |-> 0])
    /\ UNCHANGED <<pure, trace, geom, menu, history>>

\* Lines 496-502: the mask combined, the contiguous runs taken.
SwAndTroughs(p) ==
    /\ frame[p].pc = "and_troughs"
    /\ LET window_mask == AndMask(frame[p].window_mask, inverse_mask[ScratchOf(p)])
           runs == NotMaskedContiguous(window_mask)
       IN  IF runs = << >>
           THEN Finish(p, Raise("TypeError"))
           ELSE /\ Goto(p, "assemble", [window_mask |-> window_mask, runs |-> runs,
                                        n |-> 1, final_windows |-> << >>])
                /\ UNCHANGED history
    /\ UNCHANGED <<pure, trace, geom, menu, inverse_mask>>

\* Lines 502-530: one iteration of the assembly loop.
SwAssemble(p) ==
    /\ frame[p].pc = "assemble" /\ frame[p].fn = "select_windows"
    /\ frame[p].n <= Len(frame[p].runs)
    /\ Goto(p, "assemble",
            [n |-> frame[p].n + 1,
             final_windows |-> AssembleRun(frame[p].final_windows,
                                           frame[p].runs[frame[p].n],
                                           trace[p].data, trace[p].synth,
                                           frame[p].noise_level,
                                           frame[p].min_window_length)])
    /\ UNCHANGED <<pure, trace, geom, menu, inverse_mask, history>>

\* Line 532.
SwReturn(p) ==
    /\ frame[p].pc = "assemble" /\ frame[p].fn = "select_windows"
    /\ frame[p].n > Len(frame[p].runs)
    /\ Finish(p, Return(frame[p].final_windows))
    /\ UNCHANGED <<pure, trace, geom, menu, inverse_mask>>

SelectWindowsStep(p) ==
    \/ SwArrival(p) \/ SwNoise(p) \/ SwExtrema(p) \/ SwCurves(p)
    \/ SwPeaks(p) \/ SwAndPeaks(p) \/ SwTroughs(p) \/ SwAndTroughs(p)
    \/ SwAssemble(p) \/ SwReturn(p)

\* Lines 285-321: the sizes, the first arrival, the window length and the two
\* masked arrays.
Sw2Arrival(p) ==
    /\ frame[p].pc = "enter" /\ frame[p].fn = "select_windows_2"
    /\ IF FirstArrival(geom[p]).kind = "raise"
       THEN Finish(p, FirstArrival(geom[p]))
       ELSE /\ Goto(p, "slide",
                    [npts |-> Len(trace[p].synth),
                     first_tt_arrival2 |-> FirstArrival(geom[p]).tt2,
                     window_length |-> WindowLength(geom[p].P2),
                     start_idx |-> 0,
                     sliding_time_shift |-> [k \in 1 .. Len(trace[p].synth) |-> Masked],
                     max_cc_coeff |-> [k \in 1 .. Len(trace[p].synth) |-> Masked]])
            /\ UNCHANGED history
    /\ UNCHANGED <<pure, trace, geom, menu, inverse_mask>>

\* Lines 323-348: one window of the generator.
Sw2Slide(p) ==
    /\ frame[p].pc = "slide"
    /\ frame[p].start_idx + frame[p].window_length <= frame[p].npts
    /\ LET w == SlideWindow(frame[p], trace[p].data, trace[p].synth)
       IN  Goto(p, "slide", [start_idx |-> frame[p].start_idx + 1,
                             sliding_time_shift |-> w.sliding_time_shift,
                             max_cc_coeff |-> w.max_cc_coeff])
    /\ UNCHANGED <<pure, trace, geom, menu, inverse_mask, history>>

\* Lines 312-313 and 350-381: the generator is exhausted, steps 1 to 6;
\* pre_arrival keeps what time_windows was after step 2.
Sw2Mask(p) ==
    /\ frame[p].pc = "slide"
    /\ frame[p].start_idx + frame[p].window_length > frame[p].npts
    /\ \E garbage \in SUBSET UnsetEntries(frame[p].sliding_time_shift) :
           Goto(p, "runs",
                [pre_arrival |-> PreArrival(frame[p].npts, frame[p].first_tt_arrival2,
                                            geom[p].P2),
                 time_windows |-> TimeWindows(frame[p], geom[p], garbage)])
    /\ UNCHANGED <<pure, trace, geom, menu, inverse_mask, history>>

\* Lines 385-387: the contiguous unmasked runs.
Sw2Runs(p) ==
    /\ frame[p].pc = "runs"
    /\ LET runs == NotMaskedContiguous(frame[p].time_windows)
       IN  IF runs = << >>
           THEN Finish(p, Raise("TypeError"))
           ELSE /\ Goto(p, "assemble", [runs |-> runs, n |-> 1, final_windows |-> << >>])
                /\ UNCHANGED history
    /\ UNCHANGED <<pure, trace, geom, menu, inverse_mask>>

\* Lines 387-397: one iteration of the assembly loop.
Sw2Assemble(p) ==
    /\ frame[p].pc = "assemble" /\ frame[p].fn = "select_windows_2"
    /\ frame[p].n <= Len(frame[p].runs)
    /\ Goto(p, "assemble",
            [n |-> frame[p].n + 1,
             final_windows |-> AssembleRun2(frame[p].final_windows,
                                            frame[p].runs[frame[p].n],
                                            trace[p].data, trace[p].synth,
                                            geom[p].P2)])
    /\ UNCHANGED <<pure, trace, geom, menu, inverse_mask, history>>

\* Line 399.
Sw2Return(p) ==
    /\ frame[p].pc = "assemble" /\ frame[p].fn = "select_windows_2"
    /\ frame[p].n > Len(frame[p].runs)
    /\ Finish(p, Return(frame[p].final_windows))
    /\ UNCHANGED <<pure, trace, geom, menu, inverse_mask>>

SelectWindows2Step(p) ==
    \/ Sw2Arrival(p) \/ Sw2Slide(p) \/ Sw2Mask(p) \/ Sw2Runs(p)
    \/ Sw2Assemble(p) \/ Sw2Return(p)

---------------------------------------------------------------------------
\* The inputs of the selection specifications.

\* A trace pair as its caller holds it: neither attribute of the data trace
\* written yet.
NoStats == [first_valid_index2 |-> NoneValue, noise_level |-> NoneValue]
Traces(data, synth) ==
    [data |-> data, synth |-> synth, data_stats |-> NoStats, synth_stats |-> NoStats]

\* The amplitudes a perturbed sample takes.
PerturbAmp == {0, 1, 3, 5}

\* The signals that differ from sig in at most one sample.
Perturb(sig) == {sig} \cup {[sig EXCEPT ![i] = v] : i \in DOMAIN sig, v \in PerturbAmp}

\* Recorded pairs of an observed and a synthetic trace for select_windows.
LongPairs ==
    { [data |-> <<0, 3, 1, 3, 4, 0, 1, 1, 1, 3, 4>>,
       synth |-> <<0, 1, 0, 1, 0, 0, 1, 0, 4, 0, 3>>],
      [data |-> <<0, 1, 0, 1, 3, 1, 0, 1, 1, 1, 0, 1>>,
       synth |-> <<0, 1, 0, 1, 0, 1, 0, 1, 0, 1, 0, 1>>],
      [data |-> <<1, 6, 0, 5, 6, 5, 1, 0>>,
       synth |-> <<5, 1, 4, 1, 6, 0, 6, 0>>] }

\* Their geometries: the first arrival (doubled, in samples) and the dominant
\* period (doubled, in samples); select_windows has no surface-wave cutoff.
LongGeoms == {[tt2 |-> t, P2 |-> q, cut |-> 0] : t \in {TTFail, 1, 2, 3}, q \in {1, 2, 4}}

\* Recorded pairs short enough for every content of the unwritten entries of
\* select_windows_2 to be followed.
ShortPairs ==
    { [data |-> <<-1, -1, -1, -1, -1, -1>>,
       synth |-> <<-1, -1, 0, 1, -1, -1>>],
      [data |-> <<-1, -1, -1, -1, 1, -1>>,
       synth |-> <<-1, -1, -1, -1, -1, -1>>],
      [data |-> <<-1, 1>>,
       synth |-> <<1, -1>>] }

ShortGeoms ==
    {[tt2 |-> t, P2 |-> q, cut |-> c] : t \in {TTFail, 0, 2, 5}, q \in {2, 4, 6}, c \in {5, 7}}

\* What a caller holds: a pair, its geometry, and the functions it calls.
Jobs ==
    {[pair |-> b, geom |-> g, menu |-> {"select_windows"}] :
         b \in LongPairs, g \in LongGeoms}
    \cup {[pair |-> b, geom |-> g, menu |-> {"select_windows", "select_windows_2"}] :
              b \in ShortPairs, g \in ShortGeoms}

InitWindows ==
    /\ fle = Idle /\ cid = Idle /\ fo = Idle /\ fc = Idle /\ sf = Idle
    /\ \E j \in Jobs : \E d \in Perturb(j.pair.data) :
           /\ trace = [p \in Procs |-> IF p = 1 THEN Traces(d, j.pair.synth) ELSE NoTrace]
           /\ geom = [p \in Procs |-> IF p = 1 THEN j.geom ELSE Idle]
           /\ menu = [p \in Procs |-> IF p = 1 THEN j.menu ELSE {}]
    /\ frame = [p \in Procs |-> Idle]
    /\ inverse_mask = [p \in Procs |-> << >>]
    /\ history = [p \in Procs |-> << >>]

NextWindows ==
    \E p \in Procs :
        \/ \E fn \in menu[p] : Call(p, fn)
        \/ SelectWindowsStep(p)
        \/ SelectWindows2Step(p)

SpecWindows == InitWindows /\ [][NextWindows]_vars

---------------------------------------------------------------------------
\* Two invocations of select_windows at once, each on its own pair.

\* The jobs of invocation p: the first recorded pair with one sample of the
\* data replaced, the site depending on the invocation.
ParGeoms == {[tt2 |-> t, P2 |-> 1, cut |-> 0] : t \in {2, 3}}
ParJobs(p) ==
    LET b == CHOOSE x \in LongPairs : Len(x.data) = 11
    IN  {[pair |-> [data |-> [b.data EXCEPT ![2 * p + 1] = v], synth |-> b.synth],
          geom |-> g] : v \in PerturbAmp, g \in ParGeoms}

InitPar ==
    /\ fle = Idle /\ cid = Idle /\ fo = Idle /\ fc = Idle /\ sf = Idle
    /\ \E j \in [Procs -> UNION {ParJobs(p) : p \in Procs}] :
           /\ \A p \in Procs : j[p] \in ParJobs(p)
           /\ trace = [p \in Procs |-> Traces(j[p].pair.data, j[p].pair.synth)]
           /\ geom = [p \in Procs |-> j[p].geom]
    /\ menu = [p \in Procs |-> {"select_windows"}]
    /\ frame = [p \in Procs |-> Idle]
    /\ inverse_mask = [p \in Procs |-> << >>]
    /\ history = [p \in Procs |-> << >>]

NextPar ==
    \E p \in Procs :
        \/ Call(p, "select_windows")
        \/ SelectWindowsStep(p)

SpecPar == InitPar /\ [][NextPar]_vars

---------------------------------------------------------------------------
\* Properties of the selection calls.

\* The calls that have returned a window list.
Returned(p) == frame[p].pc = "returned" /\ frame[p].ret.kind = "ok"
ReturnedBy(p, fn) == Returned(p) /\ frame[p].fn = fn

\* C2: every window list returned by select_windows or select_windows_2 is
\* sorted by start, every window has stop > start, no two windows overlap,
\* and consecutive windows of select_windows are at least two samples apart.
C2_SortedDisjoint ==
    \A p \in Procs : Returned(p) =>
        LET w == frame[p].ret.windows
        IN  /\ \A k \in DOMAIN w : w[k][2] > w[k][1]
            /\ \A k \in 1 .. (Len(w) - 1) :
                   /\ w[k][1] < w[k + 1][1]
                   /\ w[k][2] <= w[k + 1][1]
                   /\ frame[p].fn = "select_windows" => w[k + 1][1] - w[k][2] >= 2

\* A select_windows call has returned two windows or more.
C2_Witness ==
    \E p \in Procs : ReturnedBy(p, "select_windows") /\ Len(frame[p].ret.windows) >= 2

\* C3: no window returned by select_windows or select_windows_2 has data and
\* synthetic energies of which the larger exceeds ten times the smaller,
\* the merged windows of select_windows included.
C3_EnergyRatio ==
    \A p \in Procs : Returned(p) =>
        \A k \in DOMAIN frame[p].ret.windows :
            ~EnergyMismatch(trace[p].data, trace[p].synth, frame[p].ret.windows[k])

\* The noise level of the claim: the largest absolute data amplitude before
\* first_valid.
NoiseBefore(p) == MaxOf(AbsArr(SubArr(trace[p].data, 0, Trunc2(geom[p].tt2))))

C5_SameAgain ==
    \A p \in Procs : \A i, k \in DOMAIN history[p] :
        (history[p][i].fn = "select_windows" /\ history[p][k].fn = "select_windows")
            => history[p][i].ret = history[p][k].ret

\* A second call of select_windows has returned windows.
C5_Witness ==
    \E p \in Procs :
        /\ Len(history[p]) = 2
        /\ \A i \in 1 .. 2 : history[p][i].fn = "select_windows"
        /\ history[p][2].ret.kind = "ok"
        /\ history[p][2].ret.windows # << >>

\* C6 as stated: after select_windows or select_windows_2 has returned, both
\* traces, samples and metadata, are as they were before the call.
C6_Pure ==
    \A p \in Procs : Returned(p) => trace[p] = frame[p].before

\* C6: after either call has ended, the samples of both traces and the
\* metadata of the synthetic trace are as before the call; select_windows_2
\* leaves the metadata of the data trace as well, and select_windows writes
\* to it nothing but first_valid_index and noise_level, the arrival index and
\* the largest absolute data amplitude before it.
C6_WritesOnlyStats ==
    \A p \in Procs : frame[p].pc = "returned" =>
        /\ trace[p].data = frame[p].before.data
        /\ trace[p].synth = frame[p].before.synth
        /\ trace[p].synth_stats = frame[p].before.synth_stats
        /\ frame[p].fn = "select_windows_2" =>
               trace[p].data_stats = frame[p].before.data_stats
        /\ frame[p].fn = "select_windows" =>
               \/ trace[p].data_stats = frame[p].before.data_stats
               \/ trace[p].data_stats = [first_valid_index2 |-> geom[p].tt2,
                                         noise_level |-> NoiseBefore(p)]

\* select_windows has returned windows and the metadata of the data trace is
\* no longer what it was.
C6_Witness ==
    \E p \in Procs :
        /\ ReturnedBy(p, "select_windows")
        /\ frame[p].ret.windows # << >>
        /\ trace[p].data_stats # frame[p].before.data_stats
        /\ trace[p].data_stats.noise_level = NoiseBefore(p)

\* What every call of p that has ended gave is what the call gives alone.
AsAlone ==
    \A p \in Procs : frame[p].pc = "returned" =>
        frame[p].ret = SelectWindows(trace[p].data, trace[p].synth, geom[p])

\* A step of invocation p leaves everything of every other invocation as it
\* is: its traces, its locals, its buffer and what its calls returned.
OwnStateOnly ==
    \A p, q \in Procs :
        (p # q /\ frame'[p] # frame[p]) =>
            /\ frame'[q] = frame[q]
            /\ trace'[q] = trace[q]
            /\ history'[q] = history[q]
            /\ inverse_mask'[ScratchOf(q)] = inverse_mask[ScratchOf(q)]

\* C7: with two select_windows invocations on pairs of their own, under
\* every interleaving of their steps each invocation ends as it does alone,
\* and no step of one changes state of the other.
C7_Independent == []AsAlone /\ [][OwnStateOnly]_vars

\* Both invocations are between filling their buffer and reading it, the two
\* buffers holding different masks.
C7_Witness ==
    /\ frame[1].pc = "and_peaks" /\ frame[2].pc = "and_peaks"
    /\ inverse_mask[ScratchOf(1)] # inverse_mask[ScratchOf(2)]

\* C15: when the travel-time lookup fails, select_windows and
\* select_windows_2 go no further than the lookup, end with an error and no
\* window list, and leave both traces as they were.
C15_LookupFailureAborts ==
    \A p \in Procs : geom[p] # Idle /\ geom[p].tt2 = TTFail =>
        /\ frame[p].pc \in {"idle", "enter", "returned"}
        /\ frame[p].pc = "returned" =>
               /\ frame[p].ret.kind = "raise"
               /\ trace[p] = frame[p].before
        /\ trace[p].data_stats = NoStats /\ trace[p].synth_stats = NoStats
        /\ \A k \in DOMAIN history[p] : history[p][k].ret.kind = "raise"

\* Both functions have been called on a pair whose lookup fails, and both
\* calls have ended.
C15_Witness ==
    \E p \in Procs :
        /\ geom[p] # Idle /\ geom[p].tt2 = TTFail
        /\ frame[p].pc = "returned"
        /\ {history[p][k].fn : k \in DOMAIN history[p]}
               = {"select_windows", "select_windows_2"}

\* C16: with a successful travel-time lookup, select_windows and
\* select_windows_2 end by returning a list, the empty list when no run
\* passes the rules or no sample remains valid.
C16_SilentRejection ==
    \A p \in Procs : (frame[p].pc = "returned" /\ geom[p].tt2 # TTFail) =>
        frame[p].ret.kind = "ok"

\* Sample i lies inside a window the cycle matcher yields for the index
\* arrays d and s.
InsideSkipWindow(i, d, s) ==
    \E k \in DOMAIN SkipFinder(d, s) :
        SkipFinder(d, s)[k][1] <= i /\ i < SkipFinder(d, s)[k][2]

\* C19: every sample of every window select_windows returns is not earlier
\* than first_valid and lies inside a cycle-matcher window of the peaks and
\* inside one of the troughs.
C19_InsideBothMatchers ==
    \A p \in Procs : ReturnedBy(p, "select_windows") =>
        LET data_ext == FindLocalExtrema(trace[p].data, geom[p].tt2)
            synth_ext == FindLocalExtrema(trace[p].synth, geom[p].tt2)
        IN  \A k \in DOMAIN frame[p].ret.windows :
                \A i \in frame[p].ret.windows[k][1] .. (frame[p].ret.windows[k][2] - 1) :
                    /\ 2 * i >= geom[p].tt2
                    /\ InsideSkipWindow(i, data_ext.peaks, synth_ext.peaks)
                    /\ InsideSkipWindow(i, data_ext.troughs, synth_ext.troughs)

Accepted(f, t, run) ==
    /\ run[2] - run[1] >= f.min_window_length
    /\ ~BelowNoise(t.data, t.synth, run, f.noise_level)
    /\ ~EnergyMismatch(t.data, t.synth, run)

\* C21: in every iteration of the assembly loop of select_windows that
\* accepts its run, a run starting zero or one sample after the stop of the
\* last accepted window is merged into it (the list keeps its length, the
\* last window keeps its start and takes the stop of the run); every other
\* accepted run becomes a new last element; the windows before the last one
\* stay as they are in both cases.
C21_MergeOrAppendFrame ==
    [][\A p \in Procs :
          (/\ frame[p].pc = "assemble" /\ frame[p].fn = "select_windows"
           /\ frame'[p].pc = "assemble" /\ frame'[p].n = frame[p].n + 1
           /\ Accepted(frame[p], trace[p], frame[p].runs[frame[p].n])) =>
              LET run == frame[p].runs[frame[p].n]
                  old == frame[p].final_windows
                  new == frame'[p].final_windows
              IN  IF old # << >> /\ run[1] - old[Len(old)][2] \in {0, 1}
                  THEN /\ Len(new) = Len(old)
                       /\ new[Len(new)] = <<old[Len(old)][1], run[2]>>
                       /\ \A k \in 1 .. (Len(old) - 1) : new[k] = old[k]
                  ELSE /\ Len(new) = Len(old) + 1
                       /\ new[Len(new)] = run
                       /\ \A k \in 1 .. Len(old) : new[k] = old[k]]_vars

\* The assembly loop of a select_windows call has just merged an accepted
\* run into the last window of its list.
C21_Witness ==
    \E p \in Procs :
        /\ frame[p].pc = "assemble" /\ frame[p].fn = "select_windows"
        /\ frame[p].n >= 2
        /\ frame[p].final_windows # << >>
        /\ Accepted(frame[p], trace[p], frame[p].runs[frame[p].n - 1])
        /\ LET run == frame[p].runs[frame[p].n - 1]
               last == frame[p].final_windows[Len(frame[p].final_windows)]
           IN  last[2] = run[2] /\ last[1] < run[1]

\* The select_windows_2 calls whose mask passes have run.
Masked2(p) == frame[p].pc \in {"runs", "assemble"} /\ frame[p].fn = "select_windows_2"

\* C22: the pre-arrival pass of select_windows_2 invalidates sample i exactly
\* when i * dt is earlier than first_arrival - 0.5 * dominant_period (when
\* 4 * i < 2 * tt2 - P2), and no sample at all when first_arrival is less
\* than 0.5 * dominant_period.
C22_PreArrivalExact ==
    \A p \in Procs : Masked2(p) =>
        \A i \in Idx(frame[p].npts) :
            ~At(frame[p].pre_arrival, i)
                <=> 4 * i < 2 * frame[p].first_tt_arrival2 - geom[p].P2

\* C23: in select_windows_2, wherever the time-shift curve changes by more
\* than 0.1 between sample k and sample k + 1, every sample of the trace
\* from k - buffer to k + buffer, buffer = ceil(0.1 * dominant_period / dt),
\* is invalid in the final mask, near the start of the trace as well.
C23_JumpBuffer ==
    \A p \in Procs : Masked2(p) =>
        LET sample_buffer == CeilDiv(geom[p].P2, 20)
        IN  \A k \in Idx(frame[p].npts - 1) :
                ShiftJump(At(frame[p].sliding_time_shift, k),
                          At(frame[p].sliding_time_shift, k + 1), geom[p].P2) =>
                    \A i \in (k - sample_buffer) .. (k + sample_buffer) :
                        i \in Idx(frame[p].npts) => ~At(frame[p].time_windows, i)

\* The assembly loop of a select_windows_2 call is under way or over:
\* final_windows is the list line 399 returns once the runs are exhausted.
Assembling2(p) == frame[p].pc = "assemble" /\ frame[p].fn = "select_windows_2"

C25_DefinedCoefficients ==
    \A p \in Procs :
        (frame[p].pc \in {"slide", "runs", "assemble"}
         /\ frame[p].fn = "select_windows_2") =>
            \A i \in Idx(frame[p].npts) :
                ~At(frame[p].max_cc_coeff, i).masked =>
                    At(frame[p].max_cc_coeff, i).v.den2 # 0

\* skip_finder(d, s) with its way of failing: find_closest indexes the
\* reference array d once for every target, so an empty d raises IndexError
\* when s holds a target, and an empty s gives no window.
SkipFinderOutcome(d, s) ==
    IF d = << >> /\ s # << >> THEN Raise("IndexError")
    ELSE [kind |-> "ok", windows |-> SkipFinder(d, s)]

\* select_windows with lines 459-480 taken out: the arrival, the noise
\* level, the extrema, the two cycle-matcher passes and the assembly.
WithoutCurves(data, synth, g) ==
    IF FirstArrival(g).kind = "raise" THEN FirstArrival(g)
    ELSE IF SubArr(data, 0, Trunc2(FirstArrival(g).tt2)) = << >> THEN Raise("ValueError")
    ELSE LET first_valid_index2 == FirstArrival(g).tt2
             npts == Len(synth)
             data_ext == FindLocalExtrema(data, first_valid_index2)
             synth_ext == FindLocalExtrema(synth, first_valid_index2)
         IN  IF data_ext.kind = "raise" THEN data_ext
             ELSE IF synth_ext.kind = "raise" THEN synth_ext
             ELSE LET by_peaks == SkipFinderOutcome(data_ext.peaks, synth_ext.peaks)
                      by_troughs == SkipFinderOutcome(data_ext.troughs, synth_ext.troughs)
                  IN  IF by_peaks.kind = "raise" THEN by_peaks
                      ELSE IF by_troughs.kind = "raise" THEN by_troughs
                      ELSE LET window_mask ==
                                   AndMask(AndMask(SliceAssign([k \in 1 .. npts |-> TRUE], 0,
                                                               Trunc2(first_valid_index2),
                                                               FALSE),
                                                   FillWindows(AllFalse(npts),
                                                               by_peaks.windows)),
                                           FillWindows(AllFalse(npts), by_troughs.windows))
                               runs == NotMaskedContiguous(window_mask)
                           IN  IF runs = << >> THEN Raise("TypeError")
                               ELSE Return(AssembleAll(
                                        << >>, runs, data, synth,
                                        MaxOf(AbsArr(SubArr(data, 0,
                                                            Trunc2(first_valid_index2)))),
                                        RoundHalf(g.P2)))

\* The reference arrays of the two cycle-matcher passes (the peaks and the
\* troughs of the data) are not of one element: np.clip(idx, 1, 0) in
\* find_closest is then not asked for bounds that cross.
ClipDefined(data, g) ==
    LET data_ext == FindLocalExtrema(data, g.tt2)
    IN  data_ext.kind = "ok" => (Len(data_ext.peaks) # 1 /\ Len(data_ext.troughs) # 1)

\* C26: every call of select_windows ends as it would with the distance
\* curves and their relative differences not computed at all, with the same
\* window list or the same error (stated for the inputs on which the result
\* of find_closest does not depend on the numpy build).
C26_CurvesInert ==
    \A p \in Procs :
        (/\ frame[p].pc = "returned" /\ frame[p].fn = "select_windows"
         /\ geom[p].tt2 # TTFail
         /\ ClipDefined(trace[p].data, geom[p])) =>
            frame[p].ret = WithoutCurves(trace[p].data, trace[p].synth, geom[p])

\* The select_windows_2 calls that hold their two curves.
Sliding2(p) ==
    frame[p].pc \in {"slide", "runs", "assemble"} /\ frame[p].fn = "select_windows_2"

\* The number of windows the generator of lines 303-315 yields.
WindowCount(npts, window_width) == Max(0, npts - window_width + 1)

\* The width is odd, the windows counted so far are no more than the
\* generator yields and all of them once the loop is left, and no entry
\* outside the range of the midpoints is populated.
OddWidthAndMidpoints ==
    \A p \in Procs : Sliding2(p) =>
        LET width == frame[p].window_length
            rounded == RoundHalf(geom[p].P2)
            half == (width - 1) \div 2
        IN  /\ width % 2 = 1
            /\ width = IF rounded % 2 = 0 THEN rounded + 1 ELSE rounded
            /\ frame[p].start_idx <= WindowCount(frame[p].npts, width)
            /\ frame[p].pc # "slide" =>
                   frame[p].start_idx = WindowCount(frame[p].npts, width)
            /\ \A i \in Idx(frame[p].npts) :
                   (i < half \/ i > frame[p].npts - 1 - half) =>
                       /\ At(frame[p].sliding_time_shift, i).masked
                       /\ At(frame[p].max_cc_coeff, i).masked

\* The first window starts at 0; every window lies inside the trace, moves
\* the start by one sample and leaves every curve entry but the one at its
\* midpoint as it was.
OneSampleOneMidpoint ==
    \A p \in Procs :
        /\ (frame[p].pc = "enter" /\ frame'[p].pc = "slide") => frame'[p].start_idx = 0
        /\ (frame[p].pc = "slide" /\ frame'[p].pc = "slide") =>
               /\ frame[p].start_idx + frame[p].window_length <= frame[p].npts
               /\ frame'[p].start_idx = frame[p].start_idx + 1
               /\ \A i \in Idx(frame[p].npts) :
                      i # frame[p].start_idx + (frame[p].window_length - 1) \div 2 =>
                          /\ At(frame'[p].sliding_time_shift, i)
                                 = At(frame[p].sliding_time_shift, i)
                          /\ At(frame'[p].max_cc_coeff, i) = At(frame[p].max_cc_coeff, i)

\* C27: in select_windows_2 the sliding window width is odd
\* (round(dominant_period / dt), plus one when that is even); the windows
\* start at 0 and advance by one sample while start + width <= npts, so the
\* loop ends after max(0, npts - width + 1) windows; each window writes the
\* curve entry at its midpoint only, and the entries below (width - 1) / 2
\* or above npts - 1 - (width - 1) / 2 are never populated.
C27_SlidingWindows == []OddWidthAndMidpoints /\ [][OneSampleOneMidpoint]_vars

\* The loop has ended for a width that was rounded to an even number and
\* raised by one, with a populated midpoint entry.
C27_Witness ==
    \E p \in Procs :
        /\ Sliding2(p) /\ frame[p].pc = "runs"
        /\ RoundHalf(geom[p].P2) % 2 = 0
        /\ frame[p].window_length = RoundHalf(geom[p].P2) + 1
        /\ frame[p].start_idx = frame[p].npts - frame[p].window_length + 1
        /\ \E i \in Idx(frame[p].npts) : ~At(frame[p].sliding_time_shift, i).masked

\* Lines 387-397 on all the runs, in order.
RECURSIVE AssembleAll2(_, _, _, _, _)
AssembleAll2(final_windows, runs, data, synth, P2) ==
    IF runs = << >> THEN final_windows
    ELSE AssembleAll2(AssembleRun2(final_windows, Head(runs), data, synth, P2),
                      Tail(runs), data, synth, P2)

\* Lines 385-399: what select_windows_2 ends with once its mask is
\* time_windows.
Outcome2(time_windows, data, synth, P2) ==
    IF NotMaskedContiguous(time_windows) = << >> THEN Raise("TypeError")
    ELSE Return(AssembleAll2(<< >>, NotMaskedContiguous(time_windows), data, synth, P2))

\* C29: what select_windows_2 returns is determined by its inputs: a run
\* that differs from this one only in what the never-written entries of the
\* time-shift and correlation curves hold ends with the same window list.
C29_UnsetEntriesUnread ==
    \A p \in Procs : (Sliding2(p) /\ frame[p].pc = "runs") =>
        \A garbage \in SUBSET UnsetEntries(frame[p].sliding_time_shift) :
            Outcome2(TimeWindows(frame[p], geom[p], garbage),
                     trace[p].data, trace[p].synth, geom[p].P2)
                = Outcome2(frame[p].time_windows,
                           trace[p].data, trace[p].synth, geom[p].P2)

===========================================================================
